---------------------------- MODULE Spec2Model ----------------------------
(***************************************************************************)
(* Model of src/data_analyzer.py: the walk-forward sample-size search of   *)
(* ErrorEstimator (get_best_sample_size, _get_estimated_errors) and the    *)
(* configuration checks of VolatilityEstimator.                            *)
(*                                                                         *)
(* A timestamp is a natural number t: month t \div SlotsPerMonth, position *)
(* t % SlotsPerMonth inside the month, position 0 being midnight of the    *)
(* first day of the month (the value dt.date(y, m, 1) denotes when pandas  *)
(* uses it as a slice bound).  A data frame is the sorted sequence of its  *)
(* index timestamps; the values of its columns never decide control flow.  *)
(*                                                                         *)
(* A float is a natural number of units of the smallest positive float,    *)
(* kept to Precision significant bits (round to nearest, ties to even),    *)
(* or NaN.                                                                 *)
(*                                                                         *)
(* Spec runs get_best_sample_size on every frame within the bounds,        *)
(* SpecMean runs its selection on every table of trial errors, and         *)
(* SpecEstimator constructs and uses a VolatilityEstimator.                *)
(***************************************************************************)
EXTENDS Integers, Sequences, FiniteSets, TLC

\* ------------------------------------------------------------- bounds
MaxMonths == 4
SlotsPerMonth == 2
MaxObs == 4
MaxMinSampleSize == 2
Precision == 3
MaxLen == 3
MaxRows == 2

\* Values the collected trial errors take when only the selection is run.
ErrValsMean == {0, 2, 16}

VARIABLES df, min_sample_size, pc, months, length, index, errors, result,
          raised, calls, nTrain, nForecast, nRealized, train_df, test_df,
          test_start, stub, ctor_arg, model_type, clean, frequency, est_pc, op, outcome

searchVars == <<df, min_sample_size, pc, months, length, index, errors, result,
                raised, calls, nTrain, nForecast, nRealized, train_df, test_df,
                test_start, stub>>
estVars == <<ctor_arg, model_type, clean, frequency, est_pc, op, outcome>>
vars == <<searchVars, estVars>>

\* Python's None, told apart from every string and every tuple the model uses.
None == <<"<None>">>

\* ------------------------------------------------------------- floats
NaN == -1

Pow2(k) == 2 ^ k

\* The exponent of q: the least k with q < 2^(Precision + k).
RECURSIVE ExpOf(_, _)
ExpOf(q, k) == IF q < Pow2(Precision + k) THEN k ELSE ExpOf(q, k + 1)

\* num / den rounded to the nearest float, ties to the even mantissa.
RoundDiv(num, den) ==
    LET q0    == num \div den
        s     == Pow2(ExpOf(q0, 0))
        lower == (q0 \div s) * s
        upper == lower + s
    IN  IF 2 * num < (lower + upper) * den THEN lower
        ELSE IF 2 * num > (lower + upper) * den THEN upper
        ELSE IF (lower \div s) % 2 = 0 THEN lower ELSE upper

FAdd(a, b) == RoundDiv(a + b, 1)

\* a < b on floats: False as soon as one side is NaN.
FLess(a, b) == a # NaN /\ b # NaN /\ a < b

\* The float sum numpy computes for a short list: left to right.
RECURSIVE FSumTo(_, _)
FSumTo(s, n) == IF n = 0 THEN 0 ELSE FAdd(FSumTo(s, n - 1), s[n])

FSum(s) == FSumTo(s, Len(s))

\* Variant of np_mean: the first entry instead of the mean.
np_mean_first(s) == IF s = <<>> THEN NaN ELSE s[1]

\* Variant of np_mean: 0 instead of NaN for the empty list.
np_mean_empty_zero(s) == IF s = <<>> THEN 0 ELSE RoundDiv(FSum(s), Len(s))

\* np.mean of a list: NaN for the empty list.
np_mean(s) == IF s = <<>> THEN NaN ELSE RoundDiv(FSum(s), Len(s))

\* ------------------------------------------------------------- frames
RECURSIVE SortedSeq(_)
SortedSeq(S) == IF S = {} THEN <<>>
                ELSE LET m == CHOOSE x \in S : \A y \in S : x <= y
                     IN  <<m>> \o SortedSeq(S \ {m})

Range(s) == {s[i] : i \in DOMAIN s}

MonthOf(t) == t \div SlotsPerMonth

\* dt.date(d.year, d.month, 1) as a slice bound: midnight of the first day.
MonthStart(m) == m * SlotsPerMonth

\* frame[lo:hi] on a sorted DatetimeIndex: label slicing keeps both ends.
Slice(frame, lo, hi) == SelectSeq(frame, LAMBDA t : lo <= t /\ t <= hi)

\* sorted(set([dt.date(d.year, d.month, 1) for d in df.index]))
MonthsOf(frame) == SortedSeq({MonthOf(t) : t \in Range(frame)})

\* Variant of CurrentMonths: months[:-(length + 1)].
CurrentMonthsShort(ms, len) == SubSeq(ms, 1, Len(ms) - len - 1)

\* months[:-length]
CurrentMonths(ms, len) == SubSeq(ms, 1, Len(ms) - len)

\* train_df of the trial (length, index); index counts from 1 here.
TrainDf(frame, ms, len, idx) ==
    Slice(frame, MonthStart(ms[idx]), MonthStart(ms[idx + len]))

\* test_df of the trial: test_start = train_end, test_end one month later.
TestDf(frame, ms, len, idx) ==
    Slice(frame, MonthStart(ms[idx + len]), MonthStart(ms[idx + len] + 1))


\* ------------------------------------------------------- collaborators
Faults == {"none", "TrainingError", "SizingError"}

CallRec(fn, frame, n) == [fn |-> fn, frame |-> frame, n |-> n]

\* VolatilityEstimator.get_realized_vol: the sizing check on (len(df), window).
get_realized_vol_raises(size, window) == size <= window

\* Variant of get_estimated_errors: forecasts len(train_df) steps.
get_estimated_errors_horizon(tr, te, fault, err) ==
    LET whole == tr \o te
        c1 == CallRec("train_model", tr, 0)
        c2 == CallRec("vol_forecast", <<>>, Len(tr))
        c3 == CallRec("get_realized_vol", whole, Len(tr))
    IN  IF fault = "TrainingError"
        THEN [calls |-> <<c1>>, raised |-> "TrainingError", value |-> NaN]
        ELSE IF fault = "SizingError" \/ get_realized_vol_raises(Len(whole), Len(tr))
        THEN [calls |-> <<c1, c2, c3>>, raised |-> "SizingError", value |-> NaN]
        ELSE [calls |-> <<c1, c2, c3>>, raised |-> "none", value |-> err]

\* ErrorEstimator._get_estimated_errors(train_df, test_df).  fault is what the
\* collaborators do in this trial (the model's training raising, the
\* estimator raising its sizing error), err the summed squared error of the
\* merged frame when nothing raises.
get_estimated_errors(tr, te, fault, err) ==
    LET whole == tr \o te
        c1 == CallRec("train_model", tr, 0)
        c2 == CallRec("vol_forecast", <<>>, Len(te))
        c3 == CallRec("get_realized_vol", whole, Len(tr))
    IN  IF fault = "TrainingError"
        THEN [calls |-> <<c1>>, raised |-> "TrainingError", value |-> NaN]
        ELSE IF fault = "SizingError" \/ get_realized_vol_raises(Len(whole), Len(tr))
        THEN [calls |-> <<c1, c2, c3>>, raised |-> "SizingError", value |-> NaN]
        ELSE [calls |-> <<c1, c2, c3>>, raised |-> "none", value |-> err]

\* What the collaborators compute: they are functions of the frames they are
\* given, so a trial's summed squared error is a function of its slices.
Stubs == {"zero", "train", "test"}

\* df[Error].sum() of a trial under the collaborators `st`.
ErrOf(st, tr, te) ==
    IF st = "zero" THEN 0
    ELSE IF st = "train" THEN 8 * Len(tr)
    ELSE 8 * Len(te)

CountCalls(cs, fn) == Cardinality({i \in DOMAIN cs : cs[i].fn = fn})

\* ------------------------------------------------- get_best_sample_size
\* Variant of ShortCircuit: len < min_sample_size.
ShortCircuitStrict(n, minimum) == n < minimum

\* len(df[Returns]) <= min_sample_size
ShortCircuit(n, minimum) == n <= minimum

\* errors[length].append(e) on the defaultdict, keys in insertion order.
AppendError(errs, len, e) ==
    IF len > Len(errs) THEN Append(errs, <<e>>)
    ELSE [errs EXCEPT ![len] = Append(@, e)]

\* Variant of SelectStep: replaces the best on an equal mean too.
SelectStepLeq(best, len, err) ==
    LET current_err == np_mean(err)
    IN  IF current_err # NaN /\ best[2] # NaN /\ current_err <= best[2]
        THEN <<len, current_err>> ELSE best

\* One pass of the selection loop: replace the best only on a smaller mean.
SelectStep(best, len, err) ==
    LET current_err == np_mean(err)
    IN  IF FLess(current_err, best[2]) THEN <<len, current_err>> ELSE best

RECURSIVE SelectLoop(_, _, _)
SelectLoop(errs, i, best) ==
    IF i > Len(errs) THEN best
    ELSE SelectLoop(errs, i + 1, SelectStep(best, i, errs[i]))

\* Lines 125-131; reading errors[1] creates the key when it is missing.
SelectBest(errs) ==
    LET es == IF Len(errs) = 0 THEN <<<<>>>> ELSE errs
    IN  SelectLoop(es, 1, <<1, np_mean(es[1])>>)

\* Entry of get_best_sample_size up to the first trial.
Call ==
    /\ pc = "idle"
    /\ IF ShortCircuit(Len(df), min_sample_size)
       THEN /\ result' = <<Len(df), 0>>
            /\ pc' = "done"
            /\ UNCHANGED months
       ELSE /\ months' = MonthsOf(df)
            /\ pc' = IF Len(CurrentMonths(MonthsOf(df), 1)) >= 1
                     THEN "trial" ELSE "select"
            /\ UNCHANGED result
    /\ length' = 1
    /\ index' = 1
    /\ UNCHANGED <<df, min_sample_size, errors, raised, calls, nTrain,
                   nForecast, nRealized, train_df, test_df, test_start, stub,
                   estVars>>

\* Variant of Trial: a failing trial is skipped and the loops go on.
TrialSwallow ==
    /\ pc = "trial"
    /\ \E fault \in Faults :
         LET tr  == TrainDf(df, months, length, index)
             te  == TestDf(df, months, length, index)
             out == get_estimated_errors(tr, te, fault, ErrOf(stub, tr, te))
             more == index < Len(CurrentMonths(months, length))
             nextLen == IF more THEN length ELSE length + 1
         IN  /\ train_df' = tr
             /\ test_df' = te
             /\ test_start' = months[index + length]
             /\ calls' = out.calls
             /\ nTrain' = nTrain + CountCalls(out.calls, "train_model")
             /\ nForecast' = nForecast + CountCalls(out.calls, "vol_forecast")
             /\ nRealized' = nRealized + CountCalls(out.calls, "get_realized_vol")
             /\ raised' = IF raised # "none" THEN raised ELSE out.raised
             /\ errors' = IF out.raised = "none"
                          THEN AppendError(errors, length, out.value)
                          ELSE AppendError(errors, length, 0)
             /\ length' = nextLen
             /\ index' = IF more THEN index + 1 ELSE 1
             /\ pc' = IF nextLen <= Len(months) - 1 THEN "trial"
                      ELSE IF raised' # "none" THEN "raised" ELSE "select"
             /\ UNCHANGED result
    /\ UNCHANGED <<df, min_sample_size, months, stub, estVars>>

\* One pass of the inner loop body (lines 120-124): slice, run the trial,
\* append its error; an exception of the trial leaves the function.
Trial ==
    /\ pc = "trial"
    /\ \E fault \in Faults :
         LET tr  == TrainDf(df, months, length, index)
             te  == TestDf(df, months, length, index)
             out == get_estimated_errors(tr, te, fault, ErrOf(stub, tr, te))
             more == index < Len(CurrentMonths(months, length))
             nextLen == IF more THEN length ELSE length + 1
         IN  /\ train_df' = tr
             /\ test_df' = te
             /\ test_start' = months[index + length]
             /\ calls' = out.calls
             /\ nTrain' = nTrain + CountCalls(out.calls, "train_model")
             /\ nForecast' = nForecast + CountCalls(out.calls, "vol_forecast")
             /\ nRealized' = nRealized + CountCalls(out.calls, "get_realized_vol")
             /\ raised' = out.raised
             /\ IF out.raised = "none"
                THEN /\ errors' = AppendError(errors, length, out.value)
                     /\ length' = nextLen
                     /\ index' = IF more THEN index + 1 ELSE 1
                     /\ pc' = IF nextLen <= Len(months) - 1
                              THEN "trial" ELSE "select"
                ELSE /\ pc' = "raised"
                     /\ UNCHANGED <<errors, length, index>>
             /\ UNCHANGED result
    /\ UNCHANGED <<df, min_sample_size, months, stub, estVars>>

\* Lines 125-131: the selection and the return.
Select ==
    /\ pc = "select"
    /\ result' = SelectBest(errors)
    /\ errors' = IF Len(errors) = 0 THEN <<<<>>>> ELSE errors
    /\ pc' = "done"
    /\ UNCHANGED <<df, min_sample_size, months, length, index, raised, calls,
                   nTrain, nForecast, nRealized, train_df, test_df, test_start, stub,
                   estVars>>

\* Every sorted frame of at most MaxObs observations in MaxMonths months.
Frames ==
    {SortedSeq(S) : S \in {T \in SUBSET (0 .. MaxMonths * SlotsPerMonth - 1) :
                              Cardinality(T) <= MaxObs}}

EstIdle ==
    /\ ctor_arg = None /\ model_type = None /\ clean = FALSE
    /\ frequency = None /\ est_pc = "unused" /\ op = "none" /\ outcome = "none"

SearchStart ==
    /\ pc = "idle" /\ months = <<>> /\ length = 0 /\ index = 0
    /\ errors = <<>> /\ result = None /\ raised = "none" /\ calls = <<>>
    /\ nTrain = 0 /\ nForecast = 0 /\ nRealized = 0
    /\ train_df = <<>> /\ test_df = <<>> /\ test_start = 0

Init ==
    /\ df \in Frames
    /\ min_sample_size \in 1 .. MaxMinSampleSize
    /\ stub \in Stubs
    /\ SearchStart
    /\ EstIdle

Next == Call \/ Trial \/ Select

Spec == Init /\ [][Next]_vars


\* The search entered at the selection, with every list of trial errors the
\* collaborators can have produced for K months (one observation a month).
RECURSIVE ErrTables(_, _)
ErrTables(K, L) ==
    IF L > K - 1 THEN {<<>>}
    ELSE {<<e>> \o rest : e \in [1 .. K - L -> ErrValsMean],
                          rest \in ErrTables(K, L + 1)}

MonthlyFrame(K) == [m \in 1 .. K |-> MonthStart(m - 1) + 1]

Trials(K) == (K * (K - 1)) \div 2

InitMean ==
    \E K \in 2 .. MaxMonths :
        /\ df = MonthlyFrame(K)
        /\ min_sample_size = 1
        /\ stub = "zero"
        /\ pc = "select"
        /\ months = MonthsOf(df)
        /\ length = K /\ index = 1
        /\ errors \in ErrTables(K, 1)
        /\ result = None /\ raised = "none"
        /\ calls = get_estimated_errors(TrainDf(df, months, K - 1, 1),
                                        TestDf(df, months, K - 1, 1),
                                        "none", 0).calls
        /\ nTrain = Trials(K) /\ nForecast = Trials(K) /\ nRealized = Trials(K)
        /\ train_df = TrainDf(df, months, K - 1, 1)
        /\ test_df = TestDf(df, months, K - 1, 1)
        /\ test_start = months[K]
        /\ EstIdle

SpecMean == InitMean /\ [][Select]_vars

\* ------------------------------------------------- VolatilityEstimator
Alphabet == {"c", "C", "_", "x"}

Strings == UNION {[1 .. n -> Alphabet] : n \in 0 .. MaxLen}

LowerChar(ch) == IF ch = "C" THEN "c" ELSE ch

\* Variant of StrLower: the string as given.
StrIdentity(str) == str

\* str.lower()
StrLower(str) == [i \in DOMAIN str |-> LowerChar(str[i])]

\* VolatilityModelsMap.CloseToClose
CloseToClose == <<"c", "_", "c">>

\* FrequencyMap.Minute, Hour, Day, Month
KnownFrequencies == {"1Min", "H", "D", "M"}

Frequencies == KnownFrequencies \cup {"W"}

\* VolatilityEstimator.__init__: the error it raises, or "none".
init_raises(mt) ==
    IF mt = None \/ mt = <<>> THEN "ValueError"
    ELSE IF StrLower(mt) \notin {CloseToClose} THEN "ValueError"
    ELSE "none"

Construct ==
    /\ est_pc = "new"
    /\ \E mt \in Strings \cup {None}, cl \in BOOLEAN, fr \in Frequencies :
         /\ ctor_arg' = mt
         /\ clean' = cl
         /\ frequency' = fr
         /\ IF init_raises(mt) = "none"
            THEN /\ model_type' = StrLower(mt)
                 /\ est_pc' = "constructed"
                 /\ outcome' = "returned"
            ELSE /\ model_type' = mt
                 /\ est_pc' = "ctor_raised"
                 /\ outcome' = init_raises(mt)
         /\ op' = "__init__"
    /\ UNCHANGED searchVars

\* VolatilityEstimator.get_realized_vol on a frame of `size` rows.
GetRealizedVol ==
    /\ est_pc = "constructed"
    /\ \E size \in 0 .. MaxRows, window \in 0 .. MaxRows :
         outcome' = IF get_realized_vol_raises(size, window)
                    THEN "ValueError" ELSE "returned"
    /\ op' = "get_realized_vol"
    /\ UNCHANGED <<ctor_arg, model_type, clean, frequency, est_pc, searchVars>>

\* VolatilityEstimator._get_documents: the pair it returns, None when no
\* branch matches.
get_documents(fr) ==
    IF fr = "1Min" THEN <<"minute", "Hour-Minute">>
    ELSE IF fr = "H" THEN <<"hourly", "Hour">>
    ELSE IF fr = "D" THEN <<"daily", "Day">>
    ELSE IF fr = "M" THEN <<"monthly", "Month">>
    ELSE None

GetDocuments ==
    /\ est_pc = "constructed"
    /\ op' = "_get_documents"
    /\ outcome' = "returned"
    /\ UNCHANGED <<ctor_arg, model_type, clean, frequency, est_pc, searchVars>>

\* VolatilityEstimator.analyze_realized_vol up to the plot.
AnalyzeRealizedVol ==
    /\ est_pc = "constructed"
    /\ \E size \in 0 .. MaxRows, window \in 0 .. MaxRows :
         outcome' = IF get_realized_vol_raises(size, window) THEN "ValueError"
                    ELSE IF frequency \notin KnownFrequencies THEN "ValueError"
                    ELSE IF get_documents(frequency) = None THEN "TypeError"
                    ELSE "returned"
    /\ op' = "analyze_realized_vol"
    /\ UNCHANGED <<ctor_arg, model_type, clean, frequency, est_pc, searchVars>>

SearchIdle ==
    /\ df = <<>> /\ min_sample_size = 0 /\ stub = "zero" /\ SearchStart

InitEstimator ==
    /\ SearchIdle
    /\ ctor_arg = None /\ model_type = None /\ clean = FALSE
    /\ frequency = None /\ est_pc = "new" /\ op = "none" /\ outcome = "none"

NextEstimator == Construct \/ GetRealizedVol \/ GetDocuments \/ AnalyzeRealizedVol

SpecEstimator == InitEstimator /\ [][NextEstimator]_vars


\* ------------------------------------------------------------ claims
NumMonths == Len(MonthsOf(df))

Searched == Len(df) > min_sample_size

NoCalls == nTrain = 0 /\ nForecast = 0 /\ nRealized = 0 /\ calls = <<>>

\* C1: a series of at most min_sample_size observations makes
\* get_best_sample_size return (number of observations, 0.0) at once, with no
\* call to train_model, vol_forecast or get_realized_vol.
C1_ShortSeries ==
    ~Searched =>
        /\ pc \in {"idle", "done"}
        /\ NoCalls
        /\ pc = "done" => result = <<Len(df), 0>>

C1_Witness == pc = "done" /\ ~Searched /\ NumMonths >= 2

\* C2: a successful search over K >= 2 months has run exactly K - L trials
\* for each length L in 1..K-1 and none for another length, K(K-1)/2 in all.
C2_TrialCounts ==
    (pc \in {"select", "done"} /\ Searched /\ NumMonths >= 2) =>
        /\ DOMAIN errors = 1 .. NumMonths - 1
        /\ \A L \in DOMAIN errors : Len(errors[L]) = NumMonths - L
        /\ nTrain = (NumMonths * (NumMonths - 1)) \div 2

C2_Witness == pc = "done" /\ Searched /\ NumMonths = MaxMonths

\* C3: in every trial the training slice and the testing slice share no
\* observation, and the testing slice holds only observations of the month
\* that starts at months[i+L].
C3_WindowsDisjoint ==
    calls # <<>> =>
        /\ Range(train_df) \cap Range(test_df) = {}
        /\ \A t \in Range(test_df) : MonthOf(t) = test_start

\* The pair the claims describe, from the per-length means: the least mean
\* and the smallest length that has it.
BestOfMeans(means) ==
    LET mstar == CHOOSE m \in Range(means) : \A x \in Range(means) : m <= x
        Lstar == CHOOSE L \in DOMAIN means :
                    /\ means[L] = mstar
                    /\ \A M \in DOMAIN means : means[M] = mstar => L <= M
    IN  <<Lstar, mstar>>

Means == [L \in DOMAIN errors |-> np_mean(errors[L])]

\* C4: a successful search returns the least per-length mean and the smallest
\* length that has it; with every trial error 0 it returns (1, 0.0).
C4_BestLength ==
    (pc = "done" /\ Searched /\ NumMonths >= 2) =>
        /\ result = BestOfMeans(Means)
        /\ (\A L \in DOMAIN errors : \A i \in DOMAIN errors[L] :
                 errors[L][i] = 0) => result = <<1, 0>>

C4_Witness ==
    /\ pc = "done" /\ Searched /\ NumMonths = MaxMonths
    /\ result[1] = 2
    /\ np_mean(errors[3]) = result[2]

\* C5: a trial whose training or realized-volatility estimate raises ends the
\* search: the error is the caller's, no result is returned and no
\* collaborator is called afterwards.
C5_FailureAborts ==
    /\ [](raised # "none" =>
            /\ pc = "raised"
            /\ result = None
            /\ raised \in {"TrainingError", "SizingError"}
            /\ raised = "TrainingError" <=> calls[Len(calls)].fn = "train_model"
            /\ raised = "SizingError" <=> calls[Len(calls)].fn = "get_realized_vol")
    /\ [][raised # "none" =>
            UNCHANGED <<nTrain, nForecast, nRealized, errors, result, raised>>]_vars

C5_Witness ==
    /\ pc = "raised" /\ nTrain >= 2
    /\ length < NumMonths - 1

\* The upper/lower-case spellings of the close-to-close model name.
Spellings ==
    {str \in Strings :
        /\ Len(str) = Len(CloseToClose)
        /\ \A i \in DOMAIN str :
              \/ str[i] = CloseToClose[i]
              \/ CloseToClose[i] = "c" /\ str[i] = "C"}

\* C6: VolatilityEstimator(model_type, ...) raises ValueError for None, for
\* the empty string and for every string that is no spelling of the
\* supported name; every spelling constructs, storing the lower-case name.
C6_ModelType ==
    est_pc \in {"constructed", "ctor_raised"} =>
        /\ ctor_arg \in Spellings =>
              est_pc = "constructed" /\ model_type = CloseToClose
        /\ ctor_arg \notin Spellings =>
              est_pc = "ctor_raised" /\ outcome = "ValueError"

C6_Witness ==
    /\ est_pc = "constructed"
    /\ ctor_arg # CloseToClose
    /\ model_type = CloseToClose

\* v is a float: it has at most Precision significant bits.
Representable(v) == v % Pow2(ExpOf(v, 0)) = 0

\* The exact sum of the entries of s at the positions in I.
RECURSIVE SumAt(_, _)
SumAt(s, I) == IF I = {} THEN 0
               ELSE LET i == CHOOSE j \in I : TRUE
                    IN  s[i] + SumAt(s, I \ {i})

\* No float addition of entries of s rounds, in whatever order they are added.
SumsExact(s) == \A I \in SUBSET DOMAIN s : Representable(SumAt(s, I))

\* The permutations of 1..n, for each length n a list of trial errors has.
Perms == [n \in 0 .. MaxMonths |-> Permutations(1 .. n)]

Permuted(s, p) == [i \in DOMAIN s |-> s[p[i]]]

C8_UnknownFrequencyRejected ==
    (/\ est_pc = "constructed"
     /\ frequency \notin KnownFrequencies
     /\ op \in {"get_realized_vol", "analyze_realized_vol", "_get_documents"}) =>
        outcome # "returned"

\* C9: a trial calls train_model on the train slice, then vol_forecast with
\* the test slice's length as horizon, then get_realized_vol on train
\* followed by test with window len(train), once each; a successful search
\* makes as many calls of each as it ran trials.
C9_CallOrder ==
    /\ calls # <<>> =>
          /\ calls[1] = CallRec("train_model", train_df, 0)
          /\ Len(calls) \in {1, 3}
          /\ raised = "none" => Len(calls) = 3
          /\ Len(calls) = 3 =>
                /\ calls[2] = CallRec("vol_forecast", <<>>, Len(test_df))
                /\ calls[3] = CallRec("get_realized_vol", train_df \o test_df,
                                      Len(train_df))
                /\ Len(calls[3].frame) = Len(train_df) + Len(test_df)
    /\ (pc \in {"select", "done"} /\ Searched) =>
          LET trials == IF NumMonths >= 2
                        THEN (NumMonths * (NumMonths - 1)) \div 2 ELSE 0
          IN  nTrain = trials /\ nForecast = trials /\ nRealized = trials

C9_Witness ==
    /\ pc = "done" /\ nTrain >= 3
    /\ Len(test_df) # Len(train_df)
    /\ Len(test_df) >= 2

\* C10: a series longer than min_sample_size inside one calendar month makes
\* get_best_sample_size run no trial, call no collaborator, raise nothing
\* and return length 1 with the NaN mean of an empty list.
C10_SingleMonth ==
    (Searched /\ NumMonths = 1) =>
        /\ pc \in {"idle", "select", "done"}
        /\ NoCalls
        /\ pc = "done" => result = <<1, NaN>> /\ errors = <<<<>>>>

C10_Witness == pc = "done" /\ Searched /\ NumMonths = 1

=============================================================================
